---- MODULE Spec2Model ----
(***************************************************************************)
(* Model of the B-spline camera model of central_model.py: construction    *)
(* (CentralModel.__init__), the Cox-de Boor basis recursion (__B__), and    *)
(* the sampling operations sample, sample_normalized and sample_grid.       *)
(*                                                                          *)
(* Numbers.  Python floats are modelled by exact rationals <<num, den>>     *)
(* with den > 0 in lowest terms; rounding error is not modelled.  The       *)
(* IEEE value NaN is the pair <<0, 0>>.                                     *)
(***************************************************************************)
EXTENDS Integers, Sequences, FiniteSets, TLC

(***************************************************************************)
(* Bounds of the model.                                                     *)
(***************************************************************************)
MaxCount == 3      \* largest n and m of a control grid
MaxOrder == 2      \* largest spline order offered to the constructor
MaxPix == 2        \* largest pixel coordinate passed to sample
NumThreads == 2    \* callers that may be inside a sampling operation at once

Pix == -1..MaxPix
Threads == 1..NumThreads

(***************************************************************************)
(* Exact rational arithmetic standing for float arithmetic.                 *)
(***************************************************************************)
Abs(z) == IF z < 0 THEN -z ELSE z

RECURSIVE GCD(_, _)
GCD(p, q) == IF q = 0 THEN p ELSE GCD(q, p % q)

Rat(p, q) ==
    LET s == IF q < 0 THEN -1 ELSE 1
        g == GCD(Abs(p), Abs(q))
    IN  IF p = 0 THEN <<0, 1>> ELSE <<(s * p) \div g, (s * q) \div g>>

Zero == <<0, 1>>
One == <<1, 1>>
NaN == <<0, 0>>

\* common factors are cancelled before multiplying, to keep the integers small
RAdd(x, y) ==
    LET g == GCD(x[2], y[2])
    IN  IF g = 0 THEN Rat(x[1] * y[2] + y[1] * x[2], x[2] * y[2])
        ELSE Rat(x[1] * (y[2] \div g) + y[1] * (x[2] \div g), (x[2] \div g) * y[2])
RNeg(x) == <<-x[1], x[2]>>
RSub(x, y) == RAdd(x, RNeg(y))
RMul(x, y) ==
    LET g1 == GCD(Abs(x[1]), y[2])
        g2 == GCD(Abs(y[1]), x[2])
    IN  IF g1 = 0 \/ g2 = 0 THEN Rat(x[1] * y[1], x[2] * y[2])
        ELSE Rat((x[1] \div g1) * (y[1] \div g2), (x[2] \div g2) * (y[2] \div g1))
RDiv(x, y) == RMul(x, IF y[1] < 0 THEN <<-y[2], -y[1]>> ELSE <<y[2], y[1]>>)
RLeq(x, y) == x[1] * y[2] <= y[1] * x[2]
RLess(x, y) == x[1] * y[2] < y[1] * x[2]

ZeroVec == <<Zero, Zero, Zero>>
NaNVec == <<NaN, NaN, NaN>>
VAdd(p, q) == [c \in 1..3 |-> RAdd(p[c], q[c])]
VScale(p, w) == [c \in 1..3 |-> RMul(p[c], w)]

(***************************************************************************)
(* Knot generators (module knot_generators, imported at line 3), by their   *)
(* documented contract: a non-decreasing sequence of count + order + 2      *)
(* knots over [0, 1]; open_uniform repeats 0 and 1 order + 1 times and      *)
(* spaces the count - order knots between them evenly, uniform spaces all   *)
(* knots evenly.  Sequences are indexed from 1 here: Python's t[i] is       *)
(* t[i + 1].                                                                *)
(***************************************************************************)
open_uniform(count, k) ==
    [j \in 1..(count + k + 2) |->
        IF j <= k + 1 THEN Zero
        ELSE IF j > count + 1 THEN One
        ELSE Rat(j - (k + 1), count - k + 1)]

uniform(count, k) ==
    [j \in 1..(count + k + 2) |-> Rat(j - 1, count + k + 1)]

(***************************************************************************)
(* __B__: the basis function.  A subscript past the end of the knot vector  *)
(* raises IndexError, which every caller propagates.                        *)
(***************************************************************************)
IndexError == <<1, 0>>

InRange(t, i) == i >= 0 /\ i < Len(t)
At(t, i) == t[i + 1]

RECURSIVE B(_, _, _, _)

BaseCase(i, t, x) ==
    IF ~InRange(t, i) THEN IndexError
    ELSE IF ~RLeq(At(t, i), x) THEN Zero
    ELSE IF ~InRange(t, i + 1) THEN IndexError
    ELSE IF RLess(x, At(t, i + 1)) THEN One ELSE Zero

Term1ZeroDiv(i, k, t, x) ==
    IF ~(InRange(t, i) /\ InRange(t, i + k)) THEN IndexError
    ELSE LET term1b == RSub(At(t, i + k), At(t, i))
             term1c == B(i, k - 1, t, x)
         IN  IF term1c = IndexError THEN IndexError
             ELSE IF term1b = Zero THEN NaN
             ELSE RMul(RDiv(RSub(x, At(t, i)), term1b), term1c)

Term1(i, k, t, x) ==
    IF ~(InRange(t, i) /\ InRange(t, i + k)) THEN IndexError
    ELSE LET term1a == RSub(x, At(t, i))
             term1b == RSub(At(t, i + k), At(t, i))
             term1c == B(i, k - 1, t, x)
         IN  IF term1c = IndexError THEN IndexError
             ELSE IF term1b = Zero THEN RMul(RDiv(One, One), term1c)
             ELSE RMul(RDiv(term1a, term1b), term1c)

Term2(i, k, t, x) ==
    IF ~(InRange(t, i + k + 1) /\ InRange(t, i + 1)) THEN IndexError
    ELSE LET term2a == RSub(At(t, i + k + 1), x)
             term2b == RSub(At(t, i + k + 1), At(t, i + 1))
             term2c == B(i + 1, k - 1, t, x)
         IN  IF term2c = IndexError THEN IndexError
             ELSE IF term2b = Zero THEN RMul(RDiv(One, One), term2c)
             ELSE RMul(RDiv(term2a, term2b), term2c)

B(i, k, t, x) ==
    IF k = 0 THEN BaseCase(i, t, x)
    ELSE LET t1 == Term1(i, k, t, x)
         IN  IF t1 = IndexError THEN IndexError
             ELSE LET t2 == Term2(i, k, t, x)
                  IN  IF t2 = IndexError THEN IndexError ELSE RAdd(t1, t2)


(***************************************************************************)
(* State: the fields of the CentralModel object, the constructor's last     *)
(* arguments, the callers currently inside a sampling operation, and the    *)
(* last call that returned.                                                 *)
(***************************************************************************)
VARIABLES status, args, image_width, image_height, grid_width, grid_height,
          n, m, a, order, th, tv, min_basis_value, pc, ret

fields == <<image_width, image_height, grid_width, grid_height,
            n, m, a, order, th, tv, min_basis_value>>
vars == <<status, args, image_width, image_height, grid_width, grid_height,
          n, m, a, order, th, tv, min_basis_value, pc, ret>>

(***************************************************************************)
(* Constructor arguments offered to __init__.                               *)
(***************************************************************************)
Tuple(s) == [type |-> "tuple", items |-> s]
List(s) == [type |-> "list", items |-> s]

KnotMethods == {"open_uniform", "uniform", "bezier"}
ImageInputs == {Tuple(<<3, 3>>), Tuple(<<3>>), List(<<3, 3>>)}
GridInputs == {Tuple(<<3, 3>>), Tuple(<<5, 4>>), Tuple(<<3, 3, 3>>), List(<<3, 3>>)}
MinBasisValues == {Zero, Rat(1, 1000), Rat(2, 1)}
Orders == 0..MaxOrder

IntVec(x, y, z) == <<Rat(x, 1), Rat(y, 1), Rat(z, 1)>>
Cells(nn, mm) == (0..(nn - 1)) \X (0..(mm - 1))
\* every control point the same unit vector / every control point different
ConstantGrid(nn, mm) == [c \in Cells(nn, mm) |-> IntVec(0, 0, 1)]
DistinctGrid(nn, mm) == [c \in Cells(nn, mm) |-> IntVec(c[1] - c[2], 1 + c[1] * mm + c[2], -2)]

Array(shape, data) == [type |-> "ndarray", shape |-> shape, data |-> data]
ControlInputs ==
    UNION {
        { Array(<<nn, mm, 3>>, ConstantGrid(nn, mm)),
          Array(<<nn, mm, 3>>, DistinctGrid(nn, mm)),
          Array(<<nn, mm, 2>>, <<>>),
          Array(<<nn, mm>>, <<>>),
          [type |-> "list", shape |-> <<nn, mm, 3>>, data |-> ConstantGrid(nn, mm)] }
        : nn \in 1..MaxCount, mm \in 1..MaxCount }

Inputs ==
    [knot_method : KnotMethods, image_dimensions : ImageInputs,
     grid_dimensions : GridInputs, control_points : ControlInputs,
     order : Orders, min_basis_value : MinBasisValues]

NoArgs == [knot_method |-> "", image_dimensions |-> Tuple(<<>>),
           grid_dimensions |-> Tuple(<<>>), control_points |-> Array(<<>>, <<>>),
           order |-> 0, min_basis_value |-> Zero]

(***************************************************************************)
(* __init__: the five assertions, then the field assignments.               *)
(***************************************************************************)
OrderFitsOrEqual(shape, k) == shape[1] >= k /\ shape[2] >= k

OrderFits(shape, k) == shape[1] > k /\ shape[2] > k

Valid(in) ==
    /\ in.knot_method \in {"open_uniform", "uniform"}
    /\ in.image_dimensions.type = "tuple" /\ Len(in.image_dimensions.items) = 2
    /\ in.grid_dimensions.type = "tuple" /\ Len(in.grid_dimensions.items) = 2
    /\ in.control_points.type = "ndarray"
    /\ Len(in.control_points.shape) = 3
    /\ in.control_points.shape[Len(in.control_points.shape)] = 3
    /\ OrderFits(in.control_points.shape, in.order)

Knots(method, count, k) ==
    IF method = "open_uniform" THEN open_uniform(count, k) ELSE uniform(count, k)

\* the object __init__ leaves behind when no assertion fails
New(in) ==
    [image_width |-> in.image_dimensions.items[1],
     image_height |-> in.image_dimensions.items[2],
     grid_width |-> in.grid_dimensions.items[1],
     grid_height |-> in.grid_dimensions.items[2],
     n |-> in.control_points.shape[1],
     m |-> in.control_points.shape[2],
     a |-> in.control_points.data,
     order |-> in.order,
     th |-> Knots(in.knot_method, in.control_points.shape[1], in.order),
     tv |-> Knots(in.knot_method, in.control_points.shape[2], in.order),
     min_basis_value |-> in.min_basis_value]

Construct ==
    /\ status = "none"
    /\ \E in \in Inputs :
          /\ args' = in
          /\ IF Valid(in)
             THEN /\ status' = "constructed"
                  /\ image_width' = New(in).image_width
                  /\ image_height' = New(in).image_height
                  /\ grid_width' = New(in).grid_width
                  /\ grid_height' = New(in).grid_height
                  /\ n' = New(in).n
                  /\ m' = New(in).m
                  /\ a' = New(in).a
                  /\ order' = New(in).order
                  /\ th' = New(in).th
                  /\ tv' = New(in).tv
                  /\ min_basis_value' = New(in).min_basis_value
             ELSE /\ status' = "AssertionError"
                  /\ UNCHANGED fields
    /\ UNCHANGED <<pc, ret>>

(***************************************************************************)
(* sample: coordinate mapping, the two basis sweeps, the threshold          *)
(* selection and the accumulation.  Results are [tag, val]: tag "ok" with   *)
(* the returned value, or the name of the exception raised.                 *)
(***************************************************************************)
Ok(v) == [tag |-> "ok", val |-> v]
Raise(e) == [tag |-> e, val |-> <<>>]

MapCoord(c, grid, image) ==
    RDiv(RAdd(c, Rat(grid - image, 2)), Rat(grid - 1, 1))

Sweep(count, t, x) == [i \in 0..(count - 1) |-> B(i, order, t, x)]

SelectedInverted(b, mbv) == RLeq(b, mbv)

Selected(b, mbv) == RLeq(mbv, b)

Where(Bx, mbv) == {i \in DOMAIN Bx : Selected(Bx[i], mbv)}

\* the inner loop of lines 110-112 for row i, its first q columns done
RECURSIVE RowSum(_, _, _, _, _)
RowSum(i, q, Bh, Bv, vj) ==
    IF q = 0 THEN ZeroVec
    ELSE LET j == q - 1
             res == RowSum(i, q - 1, Bh, Bv, vj)
         IN  IF j \in vj
             THEN VAdd(res, VScale(a[<<i, j>>], RMul(Bh[i], Bv[j])))
             ELSE res

\* the outer loop of lines 109-112, its first p rows done
RECURSIVE Accumulate(_, _, _, _, _)
Accumulate(p, Bh, Bv, vi, vj) ==
    IF p = 0 THEN ZeroVec
    ELSE LET i == p - 1
             res == Accumulate(p - 1, Bh, Bv, vi, vj)
         IN  IF i \in vi THEN VAdd(res, RowSum(i, m, Bh, Bv, vj)) ELSE res

sample(u, v) ==
    LET u1 == MapCoord(u, grid_width, image_width)
        v1 == MapCoord(v, grid_height, image_height)
        Bh == Sweep(n, tv, u1)
        Bv == Sweep(m, th, v1)
    IN  IF \E i \in DOMAIN Bh : Bh[i] = IndexError THEN Raise("IndexError")
        ELSE IF \E j \in DOMAIN Bv : Bv[j] = IndexError THEN Raise("IndexError")
        ELSE Ok(Accumulate(n, Bh, Bv,
                           Where(Bh, min_basis_value), Where(Bv, min_basis_value)))

(***************************************************************************)
(* sample_normalized.  s / ||s|| has irrational components in general; the  *)
(* unit vector is represented by the integer vector of coprime components   *)
(* that points the same way, which determines it.  The norm is zero exactly *)
(* when s is the zero vector, and numpy divides 0.0 by a zero norm to NaN.  *)
(***************************************************************************)
LCM(p, q) == (p \div GCD(p, q)) * q

Direction(s) ==
    LET den == LCM(s[1][2], LCM(s[2][2], s[3][2]))
        w == [c \in 1..3 |-> s[c][1] * (den \div s[c][2])]
        g == GCD(Abs(w[1]), GCD(Abs(w[2]), Abs(w[3])))
    IN  [c \in 1..3 |-> Rat(w[c] \div g, 1)]

DivideByNorm(s) == IF s = ZeroVec THEN NaNVec ELSE Direction(s)

sample_normalized(u, v) ==
    LET s == sample(u, v)
    IN  IF s.tag # "ok" THEN s ELSE Ok(DivideByNorm(s.val))

(***************************************************************************)
(* sample_grid.                                                             *)
(***************************************************************************)
Floor(x) == x[1] \div x[2]

GridPixel(i, grid, count) == Rat(Floor(Rat((grid - 1) * i, count - 1)), 1)

sample_grid ==
    IF n - 1 = 0 \/ m - 1 = 0 THEN Raise("ZeroDivisionError")
    ELSE LET samples == [c \in Cells(n, m) |->
                            sample(GridPixel(c[1], grid_width, n),
                                   GridPixel(c[2], grid_height, m))]
         IN  IF \E c \in Cells(n, m) : samples[c].tag # "ok"
             THEN Raise("IndexError")
             ELSE Ok([c \in Cells(n, m) |-> samples[c].val])

(***************************************************************************)
(* One call of each operation: it runs against the object's fields and      *)
(* hands the call and its outcome to the caller in ret.  The caller takes   *)
(* the outcome (Discard) before the next call's outcome is recorded.        *)
(***************************************************************************)
NoCall == [op |-> "", u |-> 0, v |-> 0, tag |-> "", val |-> <<>>]
Call(op, u, v, r) == [op |-> op, u |-> u, v |-> v, tag |-> r.tag, val |-> r.val]

SampleCallShrinksGrid(u, v) ==
    /\ ret = NoCall
    /\ ret' = Call("sample", u, v, sample(Rat(u, 1), Rat(v, 1)))
    /\ grid_width' = grid_width - 1 /\ grid_height' = grid_height - 1
    /\ UNCHANGED <<status, args, image_width, image_height,
                   n, m, a, order, th, tv, min_basis_value>>

SampleCall(u, v) ==
    /\ ret = NoCall
    /\ ret' = Call("sample", u, v, sample(Rat(u, 1), Rat(v, 1)))
    /\ UNCHANGED <<status, args, fields>>

SampleNormalizedCall(u, v) ==
    /\ ret = NoCall
    /\ ret' = Call("sample_normalized", u, v, sample_normalized(Rat(u, 1), Rat(v, 1)))
    /\ UNCHANGED <<status, args, fields>>

SampleGridCall ==
    /\ ret = NoCall
    /\ ret' = Call("sample_grid", 0, 0, sample_grid)
    /\ UNCHANGED <<status, args, fields>>

Discard ==
    /\ ret # NoCall
    /\ ret' = NoCall
    /\ UNCHANGED <<status, args, fields, pc>>

(***************************************************************************)
(* Sequential use: one caller, each call runs to completion.                *)
(***************************************************************************)
Sample ==
    /\ status = "constructed"
    /\ \E u \in Pix, v \in Pix : SampleCall(u, v)
    /\ UNCHANGED pc

SampleNormalized ==
    /\ status = "constructed"
    /\ \E u \in Pix, v \in Pix : SampleNormalizedCall(u, v)
    /\ UNCHANGED pc

SampleGrid ==
    /\ status = "constructed"
    /\ SampleGridCall
    /\ UNCHANGED pc

Init ==
    /\ status = "none"
    /\ args = NoArgs
    /\ image_width = 0 /\ image_height = 0
    /\ grid_width = 0 /\ grid_height = 0
    /\ n = 0 /\ m = 0 /\ a = <<>> /\ order = 0
    /\ th = <<>> /\ tv = <<>>
    /\ min_basis_value = Zero
    /\ pc = [t \in Threads |-> "idle"]
    /\ ret = NoCall

Next ==
    \/ Construct
    \/ Sample
    \/ SampleNormalized
    \/ SampleGrid
    \/ Discard

Spec == Init /\ [][Next]_vars

(***************************************************************************)
(* Concurrent use: several callers inside operations of one constructed     *)
(* object at once.  Enter puts a caller inside an operation; the Return     *)
(* actions run its body.                                                    *)
(***************************************************************************)
Ops == {"sample", "sample_normalized", "sample_grid"}

SharedInputs ==
    {in \in Inputs : /\ Valid(in)
                     /\ in.knot_method = "open_uniform"
                     /\ in.grid_dimensions = Tuple(<<3, 3>>)
                     /\ in.min_basis_value = Rat(1, 1000)
                     /\ in.control_points.data =
                            ConstantGrid(in.control_points.shape[1],
                                         in.control_points.shape[2])}

InitShared ==
    /\ status = "constructed"
    /\ \E in \in SharedInputs :
          /\ args = in
          /\ image_width = New(in).image_width
          /\ image_height = New(in).image_height
          /\ grid_width = New(in).grid_width
          /\ grid_height = New(in).grid_height
          /\ n = New(in).n
          /\ m = New(in).m
          /\ a = New(in).a
          /\ order = New(in).order
          /\ th = New(in).th
          /\ tv = New(in).tv
          /\ min_basis_value = New(in).min_basis_value
    /\ pc = [t \in Threads |-> "idle"]
    /\ ret = NoCall

Enter(t, op) ==
    /\ status = "constructed"
    /\ pc[t] = "idle"
    /\ pc' = [pc EXCEPT ![t] = op]
    /\ UNCHANGED <<status, args, fields, ret>>

SampleReturn(t) ==
    /\ pc[t] = "sample"
    /\ \E u \in Pix, v \in Pix : SampleCall(u, v)
    /\ pc' = [pc EXCEPT ![t] = "idle"]

SampleNormalizedReturn(t) ==
    /\ pc[t] = "sample_normalized"
    /\ \E u \in Pix, v \in Pix : SampleNormalizedCall(u, v)
    /\ pc' = [pc EXCEPT ![t] = "idle"]

SampleGridReturn(t) ==
    /\ pc[t] = "sample_grid"
    /\ SampleGridCall
    /\ pc' = [pc EXCEPT ![t] = "idle"]

NextShared ==
    \/ \E t \in Threads, op \in Ops : Enter(t, op)
    \/ \E t \in Threads : SampleReturn(t)
    \/ \E t \in Threads : SampleNormalizedReturn(t)
    \/ \E t \in Threads : SampleGridReturn(t)
    \/ Discard

SpecShared == InitShared /\ [][NextShared]_vars

(***************************************************************************)
(* Properties.                                                              *)
(***************************************************************************)
Min(x, y) == IF x <= y THEN x ELSE y
Returned(op) == status = "constructed" /\ ret.op = op
MappedU == MapCoord(Rat(ret.u, 1), grid_width, image_width)
MappedV == MapCoord(Rat(ret.v, 1), grid_height, image_height)
OutsideUnit(x) == RLess(x, Zero) \/ RLeq(One, x)

\* the failure conditions as the claim lists them; a value that is no array
\* has no rank
ClaimViolation(in) ==
    \/ in.knot_method \notin {"open_uniform", "uniform"}
    \/ ~(in.image_dimensions.type = "tuple" /\ Len(in.image_dimensions.items) = 2)
    \/ ~(in.grid_dimensions.type = "tuple" /\ Len(in.grid_dimensions.items) = 2)
    \/ ~(/\ in.control_points.type = "ndarray"
         /\ Len(in.control_points.shape) = 3
         /\ in.control_points.shape[3] = 3)
    \/ in.order >= Min(in.control_points.shape[1], in.control_points.shape[2])

\* C1: construction fails, leaving no model, exactly when the knot method is
\* unknown, a dimension argument is not a 2-tuple, the control points are not
\* a rank-3 array of 3-vectors, or order >= min(n, m); otherwise it succeeds.
C1_ConstructionValidation ==
    status # "none" =>
        /\ (status = "constructed") <=> ~ClaimViolation(args)
        /\ (status = "AssertionError") <=> ClaimViolation(args)
        /\ status = "AssertionError" => (n = 0 /\ m = 0 /\ th = <<>> /\ tv = <<>> /\ a = <<>>)

\* construction refused for the order alone: order = min(n, m), all else valid
C1_Witness ==
    /\ status = "AssertionError"
    /\ args.knot_method = "uniform"
    /\ args.image_dimensions = Tuple(<<3, 3>>)
    /\ args.grid_dimensions = Tuple(<<5, 4>>)
    /\ args.control_points.type = "ndarray"
    /\ args.control_points.shape = <<2, 3, 3>>
    /\ args.order = 2

\* C2: a sample whose mapped u' or v' lies outside [0, 1) does not raise and
\* returns the zero vector.
C2_OutsideDomainIsZero ==
    (Returned("sample") /\ (OutsideUnit(MappedU) \/ OutsideUnit(MappedV)))
        => (ret.tag = "ok" /\ ret.val = ZeroVec)

\* C3: when sample(u, v) is the zero vector, sample_normalized(u, v) ends in a
\* division-by-zero error and returns no vector.
C3_ZeroNormRaises ==
    (Returned("sample_normalized") /\ sample(Rat(ret.u, 1), Rat(ret.v, 1)) = Ok(ZeroVec))
        => ret.tag = "ZeroDivisionError"

\* the sum over every i in [0, n) and j in [0, m), nothing selected away
Weighted(c, u1, v1) ==
    VScale(a[c], RMul(B(c[1], order, tv, u1), B(c[2], order, th, v1)))

RECURSIVE FullRow(_, _, _, _)
FullRow(i, q, u1, v1) ==
    IF q = 0 THEN ZeroVec
    ELSE VAdd(FullRow(i, q - 1, u1, v1), Weighted(<<i, q - 1>>, u1, v1))

RECURSIVE FullSum(_, _, _)
FullSum(p, u1, v1) ==
    IF p = 0 THEN ZeroVec
    ELSE VAdd(FullSum(p - 1, u1, v1), FullRow(p - 1, m, u1, v1))

BasisDefined(u1, v1) ==
    /\ \A i \in 0..(n - 1) : B(i, order, tv, u1) # IndexError
    /\ \A j \in 0..(m - 1) : B(j, order, th, v1) # IndexError

\* C4: with min_basis_value <= 0 the value of sample(u, v) is the full sum over
\* all i in [0, n), j in [0, m) of control_points[i][j] * Bh[i] * Bv[j], and the
\* threshold test drops no index with a non-zero basis value.
C4_TruncationEquivalence ==
    (Returned("sample") /\ RLeq(min_basis_value, Zero)) =>
        IF BasisDefined(MappedU, MappedV)
        THEN /\ ret.tag = "ok"
             /\ ret.val = FullSum(n, MappedU, MappedV)
             /\ \A i \in 0..(n - 1) :
                    B(i, order, tv, MappedU) # Zero
                        => i \in Where(Sweep(n, tv, MappedU), min_basis_value)
             /\ \A j \in 0..(m - 1) :
                    B(j, order, th, MappedV) # Zero
                        => j \in Where(Sweep(m, th, MappedV), min_basis_value)
        ELSE ret.tag = "IndexError"

\* a non-zero sample at threshold 0 where some basis values are zero and some
\* are not, so that the selection had indices of both kinds to decide on
C4_Witness ==
    /\ Returned("sample") /\ min_basis_value = Zero
    /\ ret.tag = "ok" /\ ret.val # ZeroVec
    /\ order = 1
    /\ \E i \in 0..(n - 1) : B(i, order, tv, MappedU) = Zero
    /\ \E i \in 0..(n - 1) : B(i, order, tv, MappedU) = Rat(1, 2)

RECURSIVE BasisSum(_, _, _, _)
BasisSum(count, k, t, x) ==
    IF count = 0 THEN Zero
    ELSE RAdd(BasisSum(count - 1, k, t, x), B(count - 1, k, t, x))

InteriorPoints == {Rat(p, 8) : p \in 1..7}

\* C5: partition of unity: for the knot vector built for count control points
\* and the model's order, and any x strictly inside the domain, the sum over
\* i in [0, count) of B(i, order, knots, x) is 1.
C5_PartitionOfUnity ==
    status = "constructed" =>
        \A x \in InteriorPoints :
            /\ BasisSum(n, order, th, x) = One
            /\ BasisSum(m, order, tv, x) = One

\* indices whose base knot interval [t[i], t[i+1]) contains x
Containing(count, t, x) ==
    {i \in 0..(count - 1) :
        /\ InRange(t, i + 1)
        /\ RLeq(At(t, i), x) /\ RLess(x, At(t, i + 1))}

\* C6: with order = 0, sample(u, v) returns exactly control_points[i0][j0] when
\* an index pair exists whose base knot intervals contain the mapped
\* parameters, and the zero vector otherwise (here: for thresholds that keep
\* a basis value of 1).
C6_OrderZeroSelectsOne ==
    (Returned("sample") /\ order = 0 /\ RLeq(min_basis_value, One)) =>
        LET I == Containing(n, tv, MappedU)
            J == Containing(m, th, MappedV)
        IN  /\ ret.tag = "ok"
            /\ Cardinality(I \X J) <= 1
            /\ \A c \in I \X J : ret.val = a[c]
            /\ (I \X J = {}) => ret.val = ZeroVec

Tolerance == Rat(1, 2)
Close(p, q) ==
    \A c \in 1..3 : /\ RLeq(RSub(p[c], q[c]), Tolerance)
                    /\ RLeq(RSub(q[c], p[c]), Tolerance)

\* C7: with order = 1, sample_grid()[i][j] is approximately control_points[i][j]
\* for every (i, j), the last row and the last column included (here: clamped
\* knots, the default threshold or lower, every component within Tolerance).
C7_OrderOneInterpolates ==
    (/\ Returned("sample_grid") /\ order = 1
     /\ args.knot_method = "open_uniform"
     /\ RLeq(min_basis_value, Rat(1, 1000))) =>
        /\ ret.tag = "ok"
        /\ \A c \in Cells(n, m) : Close(ret.val[c], a[c])

\* C8: no step of sample, sample_normalized or sample_grid, in any
\* interleaving of callers, changes the control grid, a knot vector or a
\* configuration field of the constructed model.
C8_SamplingIsReadOnly ==
    [][status = "constructed" => UNCHANGED <<status, args, fields>>]_vars

\* a call returned and both callers are inside operations again
C8_Witness ==
    /\ status = "constructed"
    /\ ret.op = "sample" /\ ret.tag = "ok" /\ ret.val # ZeroVec
    /\ pc[1] = "sample_grid" /\ pc[2] = "sample_normalized"

TermsAsClaimed(t, x) ==
    \A k \in 1..order : \A i \in 0..(Len(t) - k - 2) :
        LET d1 == RSub(At(t, i + k), At(t, i))
            d2 == RSub(At(t, i + k + 1), At(t, i + 1))
        IN  /\ Term1(i, k, t, x) =
                  IF d1 = Zero THEN B(i, k - 1, t, x)
                  ELSE RMul(RDiv(RSub(x, At(t, i)), d1), B(i, k - 1, t, x))
            /\ Term2(i, k, t, x) =
                  IF d2 = Zero THEN B(i + 1, k - 1, t, x)
                  ELSE RMul(RDiv(RSub(At(t, i + k + 1), x), d2), B(i + 1, k - 1, t, x))
            /\ B(i, k, t, x) = RAdd(Term1(i, k, t, x), Term2(i, k, t, x))

\* C9: in the recursive case of B(i, k, knots, x), a term whose denominator
\* knots[i+k] - knots[i] (or knots[i+k+1] - knots[i+1]) is zero equals its
\* sub-call B(i, k-1, ...) (or B(i+1, k-1, ...)) unmodified; otherwise it is
\* the Cox-de Boor fraction times the sub-call; the result is their sum.
C9_DegenerateDenominator ==
    Returned("sample") =>
        (TermsAsClaimed(tv, MappedU) /\ TermsAsClaimed(th, MappedV))

\* a sample on clamped knots of order 2: the basis recursion met a zero
\* denominator in both terms
C9_Witness ==
    /\ Returned("sample") /\ ret.tag = "ok" /\ ret.val # ZeroVec
    /\ order = 2 /\ args.knot_method = "open_uniform"
    /\ At(tv, 2) = At(tv, 0) /\ At(tv, Len(tv) - 1) = At(tv, Len(tv) - 3)

\* C10: every knot-vector subscript made during sample is within the bounds
\* of the knot vector it is applied to, for every constructed model and (u, v).
C10_KnotAccessInBounds ==
    (status = "constructed" /\ ret.op \in {"sample", "sample_normalized", "sample_grid"})
        => ret.tag # "IndexError"

====
